---- MODULE Spec2Model ----
(***************************************************************************)
(* Latency benchmarking scripts for a generative-language HTTP API.        *)
(*                                                                         *)
(* Three scripts are modelled:                                             *)
(*   gemini_latency_test.py            REST samplers test_gemini_streaming *)
(*                                     and test_gemini_non_streaming, and  *)
(*                                     the drivers run_single_prompt_tests,*)
(*                                     run_multi_turn_test and             *)
(*                                     run_streaming_vs_non_streaming_test *)
(*   japanese_roleplay_latency_test.py REST sampler test_gemini_streaming, *)
(*                                     drivers run_single_turn_tests and   *)
(*                                     run_multi_turn_test                 *)
(*   test_gemini_models.py             SDK sampler test_model_with_timing, *)
(*                                     driver run_performance_test         *)
(*                                                                         *)
(* One behaviour is one run of one driver: the script's check of its       *)
(* credential, the driver's loops, and the rendering of the report from    *)
(* the driver's results.  A sampler call is a sequence of steps (request,  *)
(* one step per stream line or chunk, close or fault); the driver's        *)
(* handling of a returned result is one step.                              *)
(*                                                                         *)
(* Python's None is the empty tuple and a present value v is <<v>>.        *)
(* A text is a sequence of one-character strings.                          *)
(***************************************************************************)
EXTENDS Integers, Sequences, FiniteSets, TLC

VARIABLES
    scope,             \* "sampler": one call, rich inputs; "driver": whole plan, plain inputs;
                       \* "call": one call, rich inputs on a clock of unit steps
    driver,            \* the driver function that runs
    plan,              \* sizes of the driver's loops: [configs, prompts, rounds]
    ci, pi, ri,        \* loop position: configuration, prompt, repetition (1-based)
    pc,                \* "start", "aborted", "loop", "post", "read", "sdk_read", "ret",
                       \* "done", "crashed", "reported"
    now,               \* time.time()
    start_time,        \* sampler local
    first_token_time,  \* sampler local
    first_chunk_time,  \* sampler local (test_model_with_timing)
    response_text,     \* sampler local
    token_count,       \* sampler local (gemini_latency_test.py streaming)
    chunk_count,       \* sampler local (test_model_with_timing)
    lines,             \* the lines / chunks the sampler has consumed in this call
    ret,               \* the dict the sampler returned
    outcome,           \* what the transport did to end the call: "" while it runs, then
                       \* "closed", "response", "http", "timeout", "fault" or "badline"
    results,           \* the driver's result collection
    history,           \* conversation_history of a multi-turn driver
    contents,          \* "contents" of the request of the current call
    calls,             \* sampler calls issued so far
    totals,            \* total_length and total_time of model_results (run_performance_test)
    slept,             \* TRUE when the driver slept after the last call
    env_key,           \* the environment's GEMINI_API_KEY: "unset", "empty" or "set"
    requests,          \* network requests issued so far
    report             \* what the report renderer returned, None before it ran

vars == <<scope, driver, plan, ci, pi, ri, pc, now, start_time, first_token_time,
          first_chunk_time, response_text, token_count, chunk_count, lines, ret,
          outcome, results, history, contents, calls, totals, slept, env_key, requests,
          report>>

----------------------------------------------------------------------------
(* Bounds of the model *)

MaxLines == 2      \* lines (chunks) per response stream in the sampler scope
MaxTick  == 1      \* largest clock advance of one blocking step in the sampler scope
MaxCalls == 4      \* calls of one driver run in the driver scope
MaxDim   == 3      \* largest size of one loop of a driver in the driver scope

----------------------------------------------------------------------------
(* Optional values and texts *)

None == << >>
Some(v) == <<v>>
IsNone(o) == o = None
Val(o) == o[1]

\* Python truthiness of an Optional[float] / Optional[int]: None and 0 are falsy
Truthy(o) == ~IsNone(o) /\ Val(o) # 0

\* a text that is present and not empty
Populated(o) == ~IsNone(o) /\ Val(o) # << >>

\* `x or 0`
OrZero(o) == IF Truthy(o) THEN Val(o) ELSE 0

FragA == <<"a">>
FragB == <<"b", " ", "c">>
Hello == <<"H", "e", "l", "l", "o">>

\* len(text.split()): the number of maximal runs of non-blank characters
RECURSIVE WordCountFrom(_, _, _)
WordCountFrom(text, i, inWord) ==
    IF i > Len(text) THEN 0
    ELSE IF text[i] = " " THEN WordCountFrom(text, i + 1, FALSE)
    ELSE (IF inWord THEN 0 ELSE 1) + WordCountFrom(text, i + 1, TRUE)

WordCount(text) == WordCountFrom(text, 1, FALSE)

----------------------------------------------------------------------------
(* What the transport can deliver *)

PText(t)  == [text |-> Some(t), thought |-> FALSE]
PEmpty    == [text |-> Some(<< >>), thought |-> FALSE]
PThought  == [text |-> None, thought |-> TRUE]      \* thought signature only, no "text"

\* a decoded SSE event / an SDK chunk: its candidates, each the list of its content parts
Event(cands) == [kind |-> "event", cands |-> cands]

TextEvent == Event(<< <<PText(FragA)>> >>)

Events ==
    { Event(<< >>),                                     \* no candidates
      Event(<< << >> >>),                               \* candidate without parts
      TextEvent,
      Event(<< <<PThought>> >>),
      Event(<< <<PEmpty>> >>),
      Event(<< <<PText(FragA), PText(FragB)>> >>),
      Event(<< <<PThought, PText(FragB)>> >>),
      Event(<< <<PThought>>, <<PText(FragA)>> >>) }     \* text only in the 2nd candidate

Other(kind) == [kind |-> kind, cands |-> << >>]

\* lines of response.iter_lines()
Blank    == Other("blank")      \* b""
Framing  == Other("framing")    \* a line that does not start with "data: "
BadJson  == Other("badjson")    \* "data: " + text that json.loads rejects
NonObj   == Other("nonobj")     \* "data: " + valid JSON that is not an object
BadBytes == Other("badbytes")   \* bytes that are not UTF-8

Lines == Events \cup {Blank, Framing, BadJson, NonObj, BadBytes}

\* bodies of a blocking response
Body(json, cands, usage) == [json |-> json, cands |-> cands, usage |-> usage]

Bodies ==
    { Body(FALSE, << >>, None),                                 \* response.json() raises
      Body(TRUE, << >>, None),
      Body(TRUE, << <<PText(Hello)>> >>, Some(1)),
      Body(TRUE, << <<PText(FragA), PText(FragB)>> >>, None),
      Body(TRUE, << <<PText(FragA), PThought, PText(FragB)>> >>, Some(7)),
      Body(TRUE, << <<PThought>>, <<PText(FragA)>> >>, Some(0)) }

\* faults the transport raises
Timeout == "Request timeout"
Faults == {"timeout", "boom", ""}   \* requests.exceptions.Timeout, or another exception with str(e)

StatusCodes == {200, 500}

\* s repeated n times
RECURSIVE Repeat(_, _)
Repeat(s, n) == IF n = 0 THEN "" ELSE s \o Repeat(s, n - 1)

\* response.text of a non-200 response: a short body and one of 201 characters
LongBody == Repeat("0123456789", 20) \o "X"
ErrorBodies == {"quota", LongBody}

----------------------------------------------------------------------------
(* Inputs per scope *)

\* The sampler scope draws the first call of each sampler from the rich input sets;
\* every other call draws from the plain ones: a stream of at most one text event,
\* a timeout, a clock that advances by one at every step and by one or two
\* while a line is awaited.
Rich == scope \in {"sampler", "call"} /\ (ci = 1 \/ driver = "run_streaming_vs_non_streaming_test")

ScopeLines    == IF Rich THEN Lines ELSE {TextEvent}
ScopeChunks   == IF Rich THEN Events ELSE {TextEvent}
ScopeBodies   == IF Rich THEN Bodies ELSE {Body(TRUE, << <<PText(FragA)>> >>, None)}
ScopeFaults   == IF Rich THEN Faults ELSE {"timeout"}
ScopeStatus   == IF Rich THEN StatusCodes ELSE {200}
ScopeMaxLines == IF Rich THEN MaxLines ELSE 1
ScopeTicks    == IF Rich /\ scope = "sampler" THEN 0..MaxTick ELSE {1}
ScopeReadTicks ==
    IF scope = "call" THEN {1} ELSE IF Rich THEN 0..MaxTick ELSE {1, 2}     \* waiting for a line or a chunk

----------------------------------------------------------------------------
(* Drivers, their samplers and their loops *)

SinglePrompt == "run_single_prompt_tests"                   \* gemini_latency_test.py
MultiTurn    == "run_multi_turn_test"                       \* gemini_latency_test.py
StreamVsNon  == "run_streaming_vs_non_streaming_test"       \* gemini_latency_test.py
JpSingle     == "jp_run_single_turn_tests"                  \* japanese_roleplay_latency_test.py
JpMulti      == "jp_run_multi_turn_test"                    \* japanese_roleplay_latency_test.py
Perf         == "run_performance_test"                      \* test_gemini_models.py

Drivers == {SinglePrompt, MultiTurn, StreamVsNon, JpSingle, JpMulti, Perf}

MODELS == <<"gemini-3-flash-preview", "gemini-2.5-pro", "gemini-2.5-flash", "gemini-2.0-flash">>
THINKING_MODELS_OPTIONAL == {"gemini-3-flash-preview", "gemini-2.5-flash"}
THINKING_MODELS_REQUIRED == {"gemini-3-pro-preview", "gemini-2.5-pro"}

\* thinking_modes of run_single_turn_tests
ThinkingModes(model) ==
    IF model \in THINKING_MODELS_OPTIONAL THEN <<TRUE, FALSE>>
    ELSE IF model \in THINKING_MODELS_REQUIRED THEN <<TRUE>>
    ELSE <<FALSE>>

\* the (model, thinking_enabled) pairs in the order the two outer loops of
\* run_single_turn_tests visit them, for the first m models
RECURSIVE JpConfigs(_)
JpConfigs(m) ==
    IF m = 0 THEN << >>
    ELSE JpConfigs(m - 1) \o
         [k \in 1..Len(ThinkingModes(MODELS[m])) |->
             [model |-> MODELS[m], thinking |-> ThinkingModes(MODELS[m])[k]]]

\* iterations of the outermost loop of a driver
NumConfigs(d, p) ==
    CASE d = JpSingle    -> Len(JpConfigs(p.configs))
      [] d = StreamVsNon -> 2          \* the streaming loop, then the non-streaming loop
      [] OTHER           -> p.configs

TotalCalls(d, p) == NumConfigs(d, p) * p.prompts * p.rounds

\* which loops a driver has
HasConfigs(d) == d \in {JpSingle, JpMulti, Perf}
HasPrompts(d) == d # StreamVsNon
HasRounds(d)  == d \in {SinglePrompt, StreamVsNon, JpSingle}

Plans(d, sc) ==
    { p \in [configs : 1..MaxDim, prompts : 1..MaxDim, rounds : 1..MaxDim] :
        /\ (~HasConfigs(d) => p.configs = 1)
        /\ (~HasPrompts(d) => p.prompts = 1)
        /\ (~HasRounds(d)  => p.rounds = 1)
        /\ p.configs <= Len(MODELS)
        /\ IF sc \in {"sampler", "call"}
           THEN p.configs = 1 /\ p.prompts = 1 /\ p.rounds = 1
           ELSE TotalCalls(d, p) <= MaxCalls }

\* the sampler a driver calls at configuration c
SamplerOf(d, c) ==
    CASE d \in {SinglePrompt, MultiTurn} -> "stream"
      [] d = StreamVsNon                 -> IF c = 1 THEN "stream" ELSE "block"
      [] d \in {JpSingle, JpMulti}       -> "jp_stream"
      [] d = Perf                        -> "sdk"

Sampler == SamplerOf(driver, ci)

IsMultiTurn(d) == d \in {MultiTurn, JpMulti}

\* variant: the repetition loop is outside the prompt loop
NextPosRoundMajor(c, p, r) ==
    IF p < plan.prompts THEN <<c, p + 1, r>>
    ELSE IF r < plan.rounds THEN <<c, 1, r + 1>>
    ELSE <<c + 1, 1, 1>>

\* the nested for loops: configuration, then prompt, then repetition
NextPos(c, p, r) ==
    IF r < plan.rounds THEN <<c, p, r + 1>>
    ELSE IF p < plan.prompts THEN <<c, p + 1, 1>>
    ELSE <<c + 1, 1, 1>>

UserTurn(i)   == [role |-> "user",  prompt |-> i, text |-> << >>]
ModelTurn(t)  == [role |-> "model", prompt |-> 0, text |-> t]

----------------------------------------------------------------------------
(* The samplers *)

Epoch == 1      \* time.time() at the start of a call; the code uses differences only

\* the dict a sampler returns; a key a sampler does not set is None
Result(error, ttft, total, tokens, text, firstChunk, chunks, length) ==
    [error |-> error, ttft |-> ttft, total_time |-> total, token_count |-> tokens,
     response_text |-> text, first_chunk_time |-> firstChunk, chunk_count |-> chunks,
     response_length |-> length]

\* variant: the failure dict keeps the text received before the fault
RestFailureKeepsText(msg) ==
    Result(Some(msg), None, None, None, Some(response_text), None, None, None)

\* the failure dict of the REST samplers
RestFailure(msg) == Result(Some(msg), None, None, None, None, None, None, None)

\* str(e) of an exception of the transport
StrOf(f) == IF f = "timeout" THEN "Read timed out" ELSE f

\* variant: one except clause for every exception
StreamExceptGeneric(f) == RestFailure(StrOf(f))

\* variant: the failure dict reports the first-token time measured before the fault
StreamExceptKeepsTtft(f) ==
    Result(Some(IF f = "timeout" THEN Timeout ELSE StrOf(f)),
           IF Truthy(first_token_time) THEN Some(Val(first_token_time) - start_time) ELSE None,
           None, None, None, None, None, None)

\* the except clauses of test_gemini_streaming
StreamExcept(f) == RestFailure(IF f = "timeout" THEN Timeout ELSE StrOf(f))

\* the except clause of test_gemini_non_streaming
BlockExcept(f) == RestFailure(StrOf(f))

\* text[:n]
Slice(text, n) == IF Len(text) <= n THEN text ELSE SubSeq(text, 1, n)

\* variant: the whole body goes into the error
HttpErrorWholeBody(status, text) ==
    RestFailure("HTTP " \o ToString(status) \o ": " \o text)

\* f"HTTP {response.status_code}: {response.text[:200]}"
HttpError(status, text) ==
    RestFailure("HTTP " \o ToString(status) \o ": " \o Slice(text, 200))

\* variant: every text fragment stamps the first-token time
RECURSIVE StreamPartsOverwrites(_, _, _)
StreamPartsOverwrites(parts, acc, t) ==
    IF parts = << >> THEN acc
    ELSE LET part == Head(parts)
             text == IF IsNone(part.text) THEN << >> ELSE Val(part.text)
         IN  IF text # << >>
             THEN StreamPartsOverwrites(Tail(parts),
                      [ftt    |-> Some(t),
                       text   |-> acc.text \o text,
                       tokens |-> acc.tokens + WordCount(text)], t)
             ELSE StreamPartsOverwrites(Tail(parts), acc, t)

\* the loop over the parts of candidates[0] in the REST streaming samplers
RECURSIVE StreamParts(_, _, _)
StreamParts(parts, acc, t) ==
    IF parts = << >> THEN acc
    ELSE LET part == Head(parts)
             text == IF IsNone(part.text) THEN << >> ELSE Val(part.text)
         IN  IF text # << >>
             THEN StreamParts(Tail(parts),
                      [ftt    |-> IF IsNone(acc.ftt) THEN Some(t) ELSE acc.ftt,
                       text   |-> acc.text \o text,
                       tokens |-> acc.tokens + WordCount(text)], t)
             ELSE StreamParts(Tail(parts), acc, t)

\* variant: the last candidate is read instead of the first
StreamEventLastCandidate(data, acc, t) ==
    IF data.cands # << >> THEN StreamParts(data.cands[Len(data.cands)], acc, t) ELSE acc

\* variant: the first decoded event with a candidate stamps the first-token time
StreamEventStampsAnyEvent(data, acc, t) ==
    IF data.cands # << >>
    THEN StreamParts(data.cands[1],
             [acc EXCEPT !.ftt = IF IsNone(acc.ftt) THEN Some(t) ELSE acc.ftt], t)
    ELSE acc

\* the body of the try block for one decoded event
StreamEvent(data, acc, t) ==
    IF data.cands # << >> THEN StreamParts(data.cands[1], acc, t) ELSE acc

\* variant: the end time is the time of the first token
StreamSuccessEndsAtFirstToken(ftt, text, tokens, endTime) ==
    Result(None,
           IF Truthy(ftt) THEN Some(Val(ftt) - start_time) ELSE None,
           Some(IF Truthy(ftt) THEN Val(ftt) - start_time ELSE endTime - start_time),
           IF Sampler = "stream" THEN Some(tokens) ELSE None,
           Some(text), None, None, None)

\* variant: a missing first-token time is reported as 0
StreamSuccessOrZero(ftt, text, tokens, endTime) ==
    Result(None,
           Some(IF Truthy(ftt) THEN Val(ftt) - start_time ELSE 0),
           Some(endTime - start_time),
           IF Sampler = "stream" THEN Some(tokens) ELSE None,
           Some(text), None, None, None)

\* the return of the REST streaming samplers after the loop
StreamSuccess(ftt, text, tokens, endTime) ==
    Result(None,
           IF Truthy(ftt) THEN Some(Val(ftt) - start_time) ELSE None,
           Some(endTime - start_time),
           IF Sampler = "stream" THEN Some(tokens) ELSE None,
           Some(text), None, None, None)

\* text of a blocking response: the parts of candidates[0], part.get("text", "")
RECURSIVE BlockText(_)
BlockText(parts) ==
    IF parts = << >> THEN << >>
    ELSE (IF IsNone(Head(parts).text) THEN << >> ELSE Val(Head(parts).text))
         \o BlockText(Tail(parts))

\* variant: the output size is always the word count of the text
BlockSuccessCountsWords(body, endTime) ==
    LET text == IF body.cands # << >> THEN BlockText(body.cands[1]) ELSE << >>
    IN  Result(None,
               Some(endTime - start_time),
               Some(endTime - start_time),
               Some(WordCount(text)),
               Some(text), None, None, None)

BlockSuccess(body, endTime) ==
    LET text == IF body.cands # << >> THEN BlockText(body.cands[1]) ELSE << >>
    IN  Result(None,
               Some(endTime - start_time),
               Some(endTime - start_time),
               IF IsNone(body.usage) THEN Some(WordCount(text)) ELSE body.usage,
               Some(text), None, None, None)

\* variant: every chunk overwrites the first-chunk time
FirstChunkOverwrites(fct, current_time) == Some(current_time)

\* "if first_chunk_time is None: first_chunk_time = current_time"
FirstChunk(fct, current_time) == IF IsNone(fct) THEN Some(current_time) ELSE fct

\* the loop over candidate.content.parts in test_model_with_timing
RECURSIVE SdkParts(_, _, _)
SdkParts(parts, acc, current_time) ==
    IF parts = << >> THEN acc
    ELSE LET part == Head(parts)
         IN  IF ~IsNone(part.text) /\ Val(part.text) # << >>
             THEN SdkParts(Tail(parts),
                      [ftt  |-> IF IsNone(acc.ftt) THEN Some(current_time) ELSE acc.ftt,
                       text |-> acc.text \o Val(part.text)], current_time)
             ELSE SdkParts(Tail(parts), acc, current_time)

SdkSuccess(fct, ftt, text, chunks, total) ==
    Result(None, Some(OrZero(ftt)), Some(total), None, Some(text),
           Some(OrZero(fct)), Some(chunks), Some(Len(text)))

\* "错误: " + error_msg
ErrorText(msg) == <<"E", ":", " ", msg>>

SdkFailure(msg, total) ==
    Result(Some(msg), Some(0), Some(total), None, Some(ErrorText(msg)),
           Some(0), Some(0), Some(0))

----------------------------------------------------------------------------
(* Initial state *)

\* the state before main runs, in one of the given scopes
Start(scopes) ==
    /\ scope \in scopes
    /\ driver \in Drivers
    /\ plan \in Plans(driver, scope)
    /\ ci = 1 /\ pi = 1 /\ ri = 1
    /\ env_key \in (IF scope = "driver" THEN {"unset", "empty", "set"} ELSE {"set"})
    /\ pc = "start"
    /\ requests = 0
    /\ report = None
    /\ now = Epoch
    /\ start_time = Epoch
    /\ first_token_time = None
    /\ first_chunk_time = None
    /\ response_text = << >>
    /\ token_count = 0
    /\ chunk_count = 0
    /\ lines = << >>
    /\ ret = None
    /\ outcome = ""
    /\ results = << >>
    /\ history = << >>
    /\ contents = << >>
    /\ calls = 0
    /\ totals = [length |-> 0, time |-> 0]
    /\ slept = FALSE

Init == Start({"sampler", "driver"})

driverVars  == <<scope, driver, plan, ci, pi, ri, results, history, contents, calls, totals,
                 slept, env_key, report>>
samplerVars == <<start_time, first_token_time, first_chunk_time, response_text,
                 token_count, chunk_count, lines>>

----------------------------------------------------------------------------
(* The script starts: the credential *)

GeminiScript == "gemini_latency_test.py"
JpScript     == "japanese_roleplay_latency_test.py"
SdkScript    == "test_gemini_models.py"

ScriptOf(d) ==
    CASE d \in {SinglePrompt, MultiTurn, StreamVsNon} -> GeminiScript
      [] d \in {JpSingle, JpMulti}                    -> JpScript
      [] d = Perf                                     -> SdkScript

\* os.getenv("GEMINI_API_KEY", default): the two REST scripts pass a key
\* written in the source as the default, test_gemini_models.py passes none
ApiKey(script, env) ==
    CASE env = "set"   -> Some("key")
      [] env = "empty" -> Some("")
      [] env = "unset" -> IF script = SdkScript THEN None ELSE Some("default-key")

\* `not key`
KeyMissing(key) == IsNone(key) \/ Val(key) = ""

\* test_gemini_models.py raises ValueError at import when the key is missing,
\* main of japanese_roleplay_latency_test.py returns; gemini_latency_test.py
\* does not look at the key
Startup ==
    /\ pc = "start"
    /\ pc' = IF ScriptOf(driver) \in {SdkScript, JpScript}
                /\ KeyMissing(ApiKey(ScriptOf(driver), env_key))
             THEN "aborted"
             ELSE "loop"
    /\ UNCHANGED <<driverVars, samplerVars, now, ret, outcome, requests>>

----------------------------------------------------------------------------
(* A driver calls its sampler *)

\* variant: the history of one model's conversation is passed on to the next model
PassedHistoryNeverResets ==
    IF ~IsMultiTurn(driver) THEN << >> ELSE history

\* the history the driver passes: only the multi-turn drivers pass one, and
\* jp run_multi_turn_test starts each model with conversation_history = []
PassedHistory ==
    IF ~IsMultiTurn(driver) THEN << >>
    ELSE IF driver = JpMulti /\ pi = 1 THEN << >>
    ELSE history

\* contents = conversation_history + [the user prompt]
BuildContents(hist, prompt) == hist \o <<UserTurn(prompt)>>

\* variant: contents is the list that was passed, so the prompt is appended to it
IssueCallAliasesHistory ==
    /\ pc = "loop"
    /\ ci <= NumConfigs(driver, plan)
    /\ history' = BuildContents(PassedHistory, pi)
    /\ contents' = BuildContents(PassedHistory, pi)
    /\ now' = Epoch
    /\ start_time' = Epoch
    /\ first_token_time' = None
    /\ first_chunk_time' = None
    /\ response_text' = << >>
    /\ token_count' = 0
    /\ chunk_count' = 0
    /\ lines' = << >>
    /\ ret' = None
    /\ outcome' = ""
    /\ calls' = calls + 1
    /\ slept' = FALSE
    /\ pc' = IF Sampler = "sdk" THEN "sdk_read" ELSE "post"
    /\ totals' = IF driver = Perf /\ pi = 1 THEN [length |-> 0, time |-> 0] ELSE totals
    /\ requests' = requests + (IF Sampler = "sdk" THEN 1 ELSE 0)
    /\ UNCHANGED <<env_key, report, scope, driver, plan, ci, pi, ri, results>>

\* the driver calls the sampler: contents is built and the clock is read
IssueCall ==
    /\ pc = "loop"
    /\ ci <= NumConfigs(driver, plan)
    /\ history' = PassedHistory
    /\ contents' = BuildContents(PassedHistory, pi)
    /\ now' = Epoch
    /\ start_time' = Epoch
    /\ first_token_time' = None
    /\ first_chunk_time' = None
    /\ response_text' = << >>
    /\ token_count' = 0
    /\ chunk_count' = 0
    /\ lines' = << >>
    /\ ret' = None
    /\ outcome' = ""
    /\ calls' = calls + 1
    /\ slept' = FALSE
    /\ pc' = IF Sampler = "sdk" THEN "sdk_read" ELSE "post"
    /\ totals' = IF driver = Perf /\ pi = 1 THEN [length |-> 0, time |-> 0] ELSE totals
    /\ requests' = requests + (IF Sampler = "sdk" THEN 1 ELSE 0)
    /\ UNCHANGED <<env_key, report, scope, driver, plan, ci, pi, ri, results>>

\* the loops are exhausted: the driver returns its results
Finish ==
    /\ pc = "loop"
    /\ ci > NumConfigs(driver, plan)
    /\ pc' = "done"
    /\ UNCHANGED <<driverVars, samplerVars, now, ret, outcome, requests>>

----------------------------------------------------------------------------
(* REST samplers: requests.post *)

Return(r, how) == ret' = Some(r) /\ outcome' = how /\ pc' = "ret"

\* how a raised exception ends the call
Raised(f) == IF f = "timeout" THEN "timeout" ELSE "fault"

\* requests.post returns a streaming response
PostStream ==
    /\ pc = "post"
    /\ Sampler \in {"stream", "jp_stream"}
    /\ \E status \in ScopeStatus, text \in ErrorBodies, d \in ScopeTicks :
        /\ now' = now + d
        /\ IF status # 200
           THEN Return(HttpError(status, text), "http")
           ELSE pc' = "read" /\ UNCHANGED <<ret, outcome>>
    /\ requests' = requests + 1
    /\ UNCHANGED <<driverVars, samplerVars>>

\* requests.post returns a complete response (test_gemini_non_streaming)
PostBlock ==
    /\ pc = "post"
    /\ Sampler = "block"
    /\ \E status \in ScopeStatus, text \in ErrorBodies, body \in ScopeBodies, d \in ScopeTicks :
        /\ now' = now + d
        /\ lines' = <<body>>
        /\ IF status # 200
           THEN Return(HttpError(status, text), "http")
           ELSE IF ~body.json
           THEN Return(BlockExcept("Expecting value"), "response")
           ELSE Return(BlockSuccess(body, now + d), "response")
    /\ requests' = requests + 1
    /\ UNCHANGED <<driverVars, start_time, first_token_time, first_chunk_time,
                   response_text, token_count, chunk_count>>

\* requests.post raises
PostRaises ==
    /\ pc = "post"
    /\ \E f \in ScopeFaults :
        Return(IF Sampler = "block" THEN BlockExcept(f) ELSE StreamExcept(f), Raised(f))
    /\ requests' = requests + 1
    /\ UNCHANGED <<driverVars, samplerVars, now>>

----------------------------------------------------------------------------
(* REST streaming samplers: the loop over response.iter_lines() *)

\* one iteration of the loop
ReadLine ==
    /\ pc = "read"
    /\ Len(lines) < ScopeMaxLines
    /\ \E line \in ScopeLines, d \in ScopeReadTicks :
        /\ now' = now + d
        /\ lines' = Append(lines, line)
        /\ CASE line.kind \in {"blank", "framing", "badjson"} ->
                    /\ UNCHANGED <<first_token_time, response_text, token_count, ret,
                                   outcome>>
                    /\ pc' = "read"
             [] line.kind = "badbytes" ->            \* line.decode raises UnicodeDecodeError
                    /\ UNCHANGED <<first_token_time, response_text, token_count>>
                    /\ Return(StreamExcept("codec can't decode"), "badline")
             [] line.kind = "nonobj" ->              \* data.get raises AttributeError
                    /\ UNCHANGED <<first_token_time, response_text, token_count>>
                    /\ Return(StreamExcept("no attribute 'get'"), "badline")
             [] line.kind = "event" ->
                    LET acc == StreamEvent(line,
                                   [ftt |-> first_token_time, text |-> response_text,
                                    tokens |-> token_count], now + d)
                    IN  /\ first_token_time' = acc.ftt
                        /\ response_text' = acc.text
                        /\ token_count' = acc.tokens
                        /\ pc' = "read" /\ UNCHANGED <<ret, outcome>>
    /\ UNCHANGED <<driverVars, start_time, first_chunk_time, chunk_count, requests>>

\* iter_lines raises while the stream is read
ReadRaises ==
    /\ pc = "read"
    /\ \E f \in ScopeFaults : Return(StreamExcept(f), Raised(f))
    /\ UNCHANGED <<driverVars, samplerVars, now, requests>>

\* the stream closes: end_time = time.time() and the success dict
StreamClose ==
    /\ pc = "read"
    /\ \E d \in ScopeTicks :
        /\ now' = now + d
        /\ Return(StreamSuccess(first_token_time, response_text, token_count, now + d),
                  "closed")
    /\ UNCHANGED <<driverVars, samplerVars, requests>>

----------------------------------------------------------------------------
(* SDK sampler test_model_with_timing: the loop over the chunks *)

SdkChunk ==
    /\ pc = "sdk_read"
    /\ Len(lines) < ScopeMaxLines
    /\ \E chunk \in ScopeChunks, d \in ScopeReadTicks :
        LET current_time == (now + d) - start_time
            fct == FirstChunk(first_chunk_time, current_time)
            acc == IF chunk.cands # << >>
                   THEN SdkParts(chunk.cands[1],
                            [ftt |-> first_token_time, text |-> response_text], current_time)
                   ELSE [ftt |-> first_token_time, text |-> response_text]
        IN  /\ now' = now + d
            /\ lines' = Append(lines, chunk)
            /\ chunk_count' = chunk_count + 1
            /\ first_chunk_time' = fct
            /\ first_token_time' = acc.ftt
            /\ response_text' = acc.text
    /\ UNCHANGED <<driverVars, start_time, token_count, ret, outcome, pc, requests>>

\* the request or the iteration raises: total_time is measured in the except clause
SdkRaises ==
    /\ pc = "sdk_read"
    /\ \E f \in ScopeFaults, d \in ScopeTicks :
        /\ now' = now + d
        /\ Return(SdkFailure(StrOf(f), (now + d) - start_time), Raised(f))
    /\ UNCHANGED <<driverVars, samplerVars, requests>>

SdkClose ==
    /\ pc = "sdk_read"
    /\ \E d \in ScopeTicks :
        /\ now' = now + d
        /\ Return(SdkSuccess(first_chunk_time, first_token_time, response_text,
                             chunk_count, (now + d) - start_time), "closed")
    /\ UNCHANGED <<driverVars, samplerVars, requests>>

----------------------------------------------------------------------------
(* The drivers handle the returned result *)

\* one record of a result collection; a field the driver's record type lacks is None
Record(r, success, tps) ==
    [cfg |-> ci, prompt |-> pi, round |-> ri, success |-> success,
     ttft |-> r.ttft, total_time |-> r.total_time, token_count |-> r.token_count,
     tokens_per_second |-> tps, response_text |-> r.response_text, error |-> r.error,
     first_chunk_time |-> r.first_chunk_time, chunk_count |-> r.chunk_count,
     response_length |-> r.response_length]

\* f"{x:.3f}" raises TypeError when x is None
FormatRaises(o) == IsNone(o)

\* variant: the driver never sleeps
ContinueNeverSleeps(sleeps) ==
    /\ ci' = NextPos(ci, pi, ri)[1]
    /\ pi' = NextPos(ci, pi, ri)[2]
    /\ ri' = NextPos(ci, pi, ri)[3]
    /\ slept' = FALSE
    /\ pc' = "loop"

\* variant: a failed sample is submitted again
ContinueRetriesFailure(sleeps) ==
    /\ IF ~IsNone(Val(ret).error)
       THEN UNCHANGED <<ci, pi, ri>>
       ELSE /\ ci' = NextPos(ci, pi, ri)[1]
            /\ pi' = NextPos(ci, pi, ri)[2]
            /\ ri' = NextPos(ci, pi, ri)[3]
    /\ slept' = sleeps
    /\ pc' = "loop"

\* the handler went through: next iteration of the loops
Continue(sleeps) ==
    /\ ci' = NextPos(ci, pi, ri)[1]
    /\ pi' = NextPos(ci, pi, ri)[2]
    /\ ri' = NextPos(ci, pi, ri)[3]
    /\ slept' = sleeps
    /\ pc' = "loop"

\* an exception left the handler: nothing catches it and the run ends
Crash ==
    /\ UNCHANGED <<ci, pi, ri, slept>>
    /\ pc' = "crashed"

Returned(d) == pc = "ret" /\ driver = d /\ ~IsNone(ret)

\* run_single_prompt_tests, the body of the loops after the call
HandleSinglePrompt ==
    /\ Returned(SinglePrompt)
    /\ LET r       == Val(ret)
           success == IsNone(r.error)
           tps     == IF Truthy(r.ttft) /\ Truthy(r.total_time) /\ Truthy(r.token_count)
                      THEN Some(<<Val(r.token_count), Val(r.total_time)>>) ELSE None
       IN  /\ results' = Append(results, Record(r, Some(success), tps))
           /\ IF success /\ (FormatRaises(r.ttft) \/ FormatRaises(r.total_time))
              THEN Crash
              ELSE Continue(ri < plan.rounds)
    /\ UNCHANGED <<env_key, requests, report, scope, driver, plan, history, contents, calls, totals, samplerVars, now, ret,
                   outcome>>

\* variant: the user prompt of a failed turn stays in the history
HandleMultiTurnKeepsPrompt ==
    /\ Returned(MultiTurn)
    /\ LET r       == Val(ret)
           success == IsNone(r.error)
       IN  /\ results' = Append(results, Record(r, Some(success), None))
           /\ IF success
              THEN IF FormatRaises(r.ttft) \/ FormatRaises(r.total_time)
                   THEN Crash /\ UNCHANGED history
                   ELSE /\ history' = history \o <<UserTurn(pi), ModelTurn(Val(r.response_text))>>
                        /\ Continue(TRUE)
              ELSE history' = history \o <<UserTurn(pi)>> /\ Continue(TRUE)
    /\ UNCHANGED <<env_key, requests, report, scope, driver, plan, contents, calls, totals, samplerVars, now, ret,
                   outcome>>

\* variant: a failed turn is not recorded
HandleMultiTurnDropsFailures ==
    /\ Returned(MultiTurn)
    /\ LET r       == Val(ret)
           success == IsNone(r.error)
       IN  IF success
           THEN /\ results' = Append(results, Record(r, Some(success), None))
                /\ IF FormatRaises(r.ttft) \/ FormatRaises(r.total_time)
                   THEN Crash /\ UNCHANGED history
                   ELSE /\ history' = history \o <<UserTurn(pi), ModelTurn(Val(r.response_text))>>
                        /\ Continue(TRUE)
           ELSE UNCHANGED <<results, history>> /\ Continue(TRUE)
    /\ UNCHANGED <<env_key, requests, report, scope, driver, plan, contents, calls, totals, samplerVars, now, ret,
                   outcome>>

\* run_multi_turn_test of gemini_latency_test.py
HandleMultiTurn ==
    /\ Returned(MultiTurn)
    /\ LET r       == Val(ret)
           success == IsNone(r.error)
       IN  /\ results' = Append(results, Record(r, Some(success), None))
           /\ IF success
              THEN IF FormatRaises(r.ttft) \/ FormatRaises(r.total_time)
                   THEN Crash /\ UNCHANGED history
                   ELSE /\ history' = history \o <<UserTurn(pi), ModelTurn(Val(r.response_text))>>
                        /\ Continue(TRUE)
              ELSE UNCHANGED history /\ Continue(TRUE)
    /\ UNCHANGED <<env_key, requests, report, scope, driver, plan, contents, calls, totals, samplerVars, now, ret,
                   outcome>>

\* run_streaming_vs_non_streaming_test: the streaming loop, then the non-streaming loop
HandleStreamVsNon ==
    /\ Returned(StreamVsNon)
    /\ LET r == Val(ret)
       IN  IF IsNone(r.error)
           THEN /\ results' = Append(results, Record(r, None, None))
                /\ IF (ci = 1 /\ FormatRaises(r.ttft)) \/ FormatRaises(r.total_time)
                   THEN Crash
                   ELSE Continue(TRUE)
           ELSE UNCHANGED results /\ Continue(TRUE)
    /\ UNCHANGED <<env_key, requests, report, scope, driver, plan, history, contents, calls, totals, samplerVars, now, ret,
                   outcome>>

\* run_single_turn_tests of japanese_roleplay_latency_test.py
HandleJpSingle ==
    /\ Returned(JpSingle)
    /\ LET r == Val(ret)
       IN  /\ results' = Append(results, Record(r, Some(IsNone(r.error)), None))
           /\ IF IsNone(r.error) /\ ~IsNone(r.ttft) /\ FormatRaises(r.total_time)
              THEN Crash
              ELSE Continue(TRUE)
    /\ UNCHANGED <<env_key, requests, report, scope, driver, plan, history, contents, calls, totals, samplerVars, now, ret,
                   outcome>>

\* variant: the user prompt of a turn without a reply stays in the history
HandleJpMultiKeepsPrompt ==
    /\ Returned(JpMulti)
    /\ LET r == Val(ret)
       IN  /\ results' = Append(results, Record(r, None, None))
           /\ IF IsNone(r.error) /\ ~IsNone(r.ttft)
              THEN IF FormatRaises(r.total_time)
                   THEN Crash /\ UNCHANGED history
                   ELSE /\ history' = history \o <<UserTurn(pi), ModelTurn(Val(r.response_text))>>
                        /\ Continue(TRUE)
              ELSE history' = history \o <<UserTurn(pi)>> /\ Continue(TRUE)
    /\ UNCHANGED <<env_key, requests, report, scope, driver, plan, contents, calls, totals, samplerVars, now, ret,
                   outcome>>

\* run_multi_turn_test of japanese_roleplay_latency_test.py
HandleJpMulti ==
    /\ Returned(JpMulti)
    /\ LET r == Val(ret)
       IN  /\ results' = Append(results, Record(r, None, None))
           /\ IF IsNone(r.error) /\ ~IsNone(r.ttft)
              THEN IF FormatRaises(r.total_time)
                   THEN Crash /\ UNCHANGED history
                   ELSE /\ history' = history \o <<UserTurn(pi), ModelTurn(Val(r.response_text))>>
                        /\ Continue(TRUE)
              ELSE UNCHANGED history /\ Continue(TRUE)
    /\ UNCHANGED <<env_key, requests, report, scope, driver, plan, contents, calls, totals, samplerVars, now, ret,
                   outcome>>

\* run_performance_test
HandlePerf ==
    /\ Returned(Perf)
    /\ LET r == Val(ret)
       IN  IF FormatRaises(r.ttft) \/ FormatRaises(r.total_time)
           THEN Crash /\ UNCHANGED <<results, totals>>
           ELSE /\ results' = Append(results, Record(r, None, None))
                /\ totals' = [length |-> totals.length + Val(r.response_length),
                              time   |-> totals.time + Val(r.total_time)]
                /\ Continue(FALSE)
    /\ UNCHANGED <<env_key, requests, report, scope, driver, plan, history, contents, calls, samplerVars, now, ret,
                   outcome>>

----------------------------------------------------------------------------
(* The reports *)

\* sum(xs)
RECURSIVE Sum(_)
Sum(xs) == IF xs = << >> THEN 0 ELSE Head(xs) + Sum(Tail(xs))

Range(xs) == {xs[i] : i \in 1..Len(xs)}

\* min(xs), max(xs) of a non-empty list
Min(xs) == CHOOSE x \in Range(xs) : \A y \in Range(xs) : x <= y
Max(xs) == CHOOSE x \in Range(xs) : \A y \in Range(xs) : x >= y

\* a fraction <<numerator, denominator>>
Frac(n, d) == <<n, d>>

\* statistics.mean(xs) of a non-empty list of numbers
Mean(xs) == Frac(Sum(xs), Len(xs))

\* `statistics.mean(xs) if xs else 0`
MeanOrZero(xs) == IF xs = << >> THEN Frac(0, 1) ELSE Mean(xs)

\* the sum and the mean of a non-empty list of fractions
RECURSIVE SumFrac(_)
SumFrac(fs) ==
    IF fs = << >> THEN Frac(0, 1)
    ELSE LET rest == SumFrac(Tail(fs))
         IN  Frac(Head(fs)[1] * rest[2] + rest[1] * Head(fs)[2], Head(fs)[2] * rest[2])

MeanFrac(fs) == IF fs = << >> THEN Frac(0, 1) ELSE Frac(SumFrac(fs)[1], SumFrac(fs)[2] * Len(fs))

\* n / d rounded to an integer, a tie going to the even neighbour
Round(n, d) ==
    LET q == n \div d
        r == n % d
    IN  IF 2 * r < d THEN q
        ELSE IF 2 * r > d THEN q + 1
        ELSE IF q % 2 = 0 THEN q ELSE q + 1

RECURSIVE Pow10(_)
Pow10(k) == IF k = 0 THEN 1 ELSE 10 * Pow10(k - 1)

\* the decimal digits of n, padded with zeros on the left to k digits
RECURSIVE Pad(_, _)
Pad(n, k) == IF k = 0 THEN "" ELSE Pad(n \div 10, k - 1) \o ToString(n % 10)

\* variant: the digits after the k-th are cut off
FixedTruncates(x, k) ==
    LET scaled == (x[1] * Pow10(k)) \div x[2]
    IN  IF k = 0 THEN ToString(scaled)
        ELSE ToString(scaled \div Pow10(k)) \o "." \o Pad(scaled % Pow10(k), k)

\* f"{x:.kf}" of the fraction x >= 0
Fixed(x, k) ==
    LET scaled == Round(x[1] * Pow10(k), x[2])
    IN  IF k = 0 THEN ToString(scaled)
        ELSE ToString(scaled \div Pow10(k)) \o "." \o Pad(scaled % Pow10(k), k)

\* f"{x:.3f}s"
Seconds(x) == Fixed(x, 3) \o "s"

\* f"{x:.3f}s" if x else "N/A", for an Optional number
SecondsOrNA(o) == IF Truthy(o) THEN Seconds(Frac(Val(o), 1)) ELSE "N/A"

\* a text as one string
RECURSIVE Str(_)
Str(text) == IF text = << >> THEN "" ELSE Head(text) \o Str(Tail(text))

\* [r.f for r in recs if r.f]
RECURSIVE TruthyVals(_, _)
TruthyVals(recs, f) ==
    IF recs = << >> THEN << >>
    ELSE (IF Truthy(Head(recs)[f]) THEN <<Val(Head(recs)[f])>> ELSE << >>)
         \o TruthyVals(Tail(recs), f)

\* [r[f] for r in recs]
Vals(recs, f) == [i \in 1..Len(recs) |-> Val(recs[i][f])]

\* [r.tokens_per_second for r in recs if r.tokens_per_second]
RECURSIVE TpsVals(_)
TpsVals(recs) ==
    IF recs = << >> THEN << >>
    ELSE (IF IsNone(Head(recs).tokens_per_second) THEN << >>
          ELSE <<Val(Head(recs).tokens_per_second)>>)
         \o TpsVals(Tail(recs))

IsSuccess(r) == Val(r.success)

\* what a renderer gives: the cells of the lines it wrote, or the exception
Rendered(rows) == [raised |-> FALSE, rows |-> rows]
RenderRaised   == [raised |-> TRUE, rows |-> << >>]

\* f"{len(successful) / len(group) * 100:.0f}%"
SuccessRate(successful, group) == Fixed(Frac(Len(successful) * 100, Len(group)), 0) \o "%"

\* variant: a test type without a success is rendered like any other
SingleRowZeros(res, p) ==
    LET type_results == SelectSeq(res, LAMBDA r : r.prompt = p)
        successful   == SelectSeq(type_results, IsSuccess)
        ttfts        == TruthyVals(successful, "ttft")
        totals_      == TruthyVals(successful, "total_time")
        tps_list     == TpsVals(successful)
    IN  <<"type", Seconds(MeanOrZero(ttfts)),
          Seconds(Frac(IF ttfts = << >> THEN 0 ELSE Min(ttfts), 1)),
          Seconds(Frac(IF ttfts = << >> THEN 0 ELSE Max(ttfts), 1)),
          Seconds(MeanOrZero(totals_)),
          Fixed(MeanFrac(tps_list), 1),
          IF type_results = << >> THEN "0%" ELSE SuccessRate(successful, type_results)>>

\* generate_report of gemini_latency_test.py, section 1: the line of one test type
SingleRow(res, p) ==
    LET type_results == SelectSeq(res, LAMBDA r : r.prompt = p)
        successful   == SelectSeq(type_results, IsSuccess)
        ttfts        == TruthyVals(successful, "ttft")
        totals_      == TruthyVals(successful, "total_time")
        tps_list     == TpsVals(successful)
    IN  IF successful # << >>
        THEN <<"type", Seconds(MeanOrZero(ttfts)),
               Seconds(Frac(IF ttfts = << >> THEN 0 ELSE Min(ttfts), 1)),
               Seconds(Frac(IF ttfts = << >> THEN 0 ELSE Max(ttfts), 1)),
               Seconds(MeanOrZero(totals_)),
               Fixed(MeanFrac(tps_list), 1),
               SuccessRate(successful, type_results)>>
        ELSE <<"type", "N/A", "N/A", "N/A", "N/A", "N/A", "0%">>

\* generate_report of gemini_latency_test.py: section 1 and the conclusion
GeminiSingleReport(res) ==
    LET all_successful == SelectSeq(res, IsSuccess)
        ttfts          == TruthyVals(all_successful, "ttft")
        totals_        == TruthyVals(all_successful, "total_time")
    IN  IF all_successful = << >>
        THEN Rendered([p \in 1..plan.prompts |-> SingleRow(res, p)])
        ELSE IF ttfts = << >> \/ totals_ = << >>
        THEN RenderRaised                     \* statistics.mean([]) raises StatisticsError
        ELSE Rendered([p \in 1..plan.prompts |-> SingleRow(res, p)]
                      \o << <<"overall", Seconds(Mean(ttfts)), Seconds(Mean(totals_)),
                              ToString(Len(all_successful)) \o "/" \o ToString(Len(res)),
                              SuccessRate(all_successful, res)>> >>)

\* generate_report of gemini_latency_test.py: section 2
GeminiMultiReport(res) ==
    LET rows == [i \in 1..Len(res) |->
                    <<"turn", SecondsOrNA(res[i].ttft), SecondsOrNA(res[i].total_time),
                      IF IsSuccess(res[i]) THEN "ok" ELSE Val(res[i].error)>>]
        successful_multi == SelectSeq(res, IsSuccess)
        ttfts            == TruthyVals(successful_multi, "ttft")
        totals_          == TruthyVals(successful_multi, "total_time")
    IN  IF successful_multi = << >> THEN Rendered(rows)
        ELSE IF ttfts = << >> \/ totals_ = << >> THEN RenderRaised
        ELSE Rendered(rows \o << <<"mean", Seconds(Mean(ttfts)), Seconds(Mean(totals_))>> >>)

\* generate_report of gemini_latency_test.py: section 3
GeminiCompareReport(res) ==
    LET streaming     == SelectSeq(res, LAMBDA r : r.cfg = 1)
        non_streaming == SelectSeq(res, LAMBDA r : r.cfg = 2)
    IN  Rendered(
          (IF streaming # << >>
           THEN << <<"stream", Seconds(Mean(Vals(streaming, "ttft"))),
                     Seconds(Mean(Vals(streaming, "total_time")))>> >>
           ELSE << >>)
          \o
          (IF non_streaming # << >>
           THEN << <<"block", Seconds(Mean(Vals(non_streaming, "total_time"))),
                     Seconds(Mean(Vals(non_streaming, "total_time")))>> >>
           ELSE << >>))

\* the model and the thinking mode of the records of configuration c
ConfigOf(c) == JpConfigs(plan.configs)[c]

OnOff(b) == IF b THEN "ON" ELSE "OFF"

\* generate_report of japanese_roleplay_latency_test.py, section 1: one line
JpSingleRow(res, c) ==
    LET filtered   == SelectSeq(res, LAMBDA r : r.cfg = c)
        successful == SelectSeq(filtered, IsSuccess)
        ttfts      == TruthyVals(successful, "ttft")
        totals_    == TruthyVals(successful, "total_time")
    IN  IF successful # << >>
        THEN <<ConfigOf(c).model, OnOff(ConfigOf(c).thinking),
               Seconds(MeanOrZero(ttfts)),
               Seconds(Frac(IF ttfts = << >> THEN 0 ELSE Min(ttfts), 1)),
               Seconds(Frac(IF ttfts = << >> THEN 0 ELSE Max(ttfts), 1)),
               Seconds(MeanOrZero(totals_)),
               IF filtered = << >> THEN "0%" ELSE SuccessRate(successful, filtered)>>
        ELSE <<ConfigOf(c).model, OnOff(ConfigOf(c).thinking),
               "N/A", "N/A", "N/A", "N/A", "0%">>

\* section 2: thinking on against thinking off, for one model that has both
JpThinkingRow(res, model) ==
    LET usable(r)    == IsSuccess(r) /\ Truthy(r.ttft) /\ ConfigOf(r.cfg).model = model
        thinking_on  == SelectSeq(res, LAMBDA r : usable(r) /\ ConfigOf(r.cfg).thinking)
        thinking_off == SelectSeq(res, LAMBDA r : usable(r) /\ ~ConfigOf(r.cfg).thinking)
        avg_on       == Mean(Vals(thinking_on, "ttft"))
        avg_off      == Mean(Vals(thinking_off, "ttft"))
    IN  IF thinking_on # << >> /\ thinking_off # << >>
        THEN <<model, Seconds(avg_on), Seconds(avg_off),
               IF avg_on[1] * avg_off[2] >= avg_off[1] * avg_on[2] THEN "faster" ELSE "slower">>
        ELSE IF thinking_on # << >> THEN <<model, Seconds(avg_on), "N/A", "-">>
        ELSE IF thinking_off # << >> THEN <<model, "N/A", Seconds(avg_off), "-">>
        ELSE <<model, "N/A", "N/A", "-">>

\* the models of THINKING_MODELS_OPTIONAL among the first m of MODELS, in order
OptionalModels(m) ==
    SelectSeq(SubSeq(MODELS, 1, m), LAMBDA x : x \in THINKING_MODELS_OPTIONAL)

\* section 4: the sample of the lowest ttft
JpBestRow(res) ==
    LET successful_all == SelectSeq(res, LAMBDA r : IsSuccess(r) /\ Truthy(r.ttft))
        best == successful_all[CHOOSE i \in 1..Len(successful_all) :
                    /\ \A j \in 1..Len(successful_all) :
                           Val(successful_all[i].ttft) <= Val(successful_all[j].ttft)
                    /\ \A j \in 1..(i - 1) :
                           Val(successful_all[j].ttft) > Val(successful_all[i].ttft)]
    IN  IF successful_all = << >> THEN << >>
        ELSE << <<"best", Seconds(Frac(Val(best.ttft), 1)), ConfigOf(best.cfg).model,
                  OnOff(ConfigOf(best.cfg).thinking)>> >>

\* generate_report of japanese_roleplay_latency_test.py: sections 1, 2 and 4
JpSingleReport(res) ==
    Rendered([c \in 1..NumConfigs(JpSingle, plan) |-> JpSingleRow(res, c)]
             \o [k \in 1..Len(OptionalModels(plan.configs)) |->
                    JpThinkingRow(res, OptionalModels(plan.configs)[k])]
             \o JpBestRow(res))

\* response_short of section 3
ResponseShort(o) ==
    IF Populated(o) /\ Len(Val(o)) > 20 THEN Str(SubSeq(Val(o), 1, 20)) \o "..."
    ELSE IF Populated(o) THEN Str(Val(o))
    ELSE "N/A"

\* generate_report of japanese_roleplay_latency_test.py: section 3, one model
JpMultiModel(res, c) ==
    LET turns            == SelectSeq(res, LAMBDA r : r.cfg = c)
        successful_turns == SelectSeq(turns, LAMBDA t : Truthy(t.ttft))
    IN  [i \in 1..Len(turns) |->
            <<"turn", SecondsOrNA(turns[i].ttft), SecondsOrNA(turns[i].total_time),
              ResponseShort(turns[i].response_text)>>]
        \o (IF successful_turns # << >>
            THEN << <<"mean", Seconds(Mean(Vals(successful_turns, "ttft"))),
                      Seconds(Mean(Vals(successful_turns, "total_time")))>> >>
            ELSE << >>)

RECURSIVE JpMultiRows(_, _)
JpMultiRows(res, c) ==
    IF c = 0 THEN << >> ELSE JpMultiRows(res, c - 1) \o JpMultiModel(res, c)

JpMultiReport(res) == Rendered(JpMultiRows(res, plan.configs))

\* conv.get(f, 0) of the k-th conversation of a configuration, {} when there is none
ConvGet(convs, k, f) == IF Len(convs) >= k THEN Val(convs[k][f]) ELSE 0

\* print_comparison_table: the line of one configuration
PerfRow(res, c) ==
    LET convs == SelectSeq(res, LAMBDA r : r.cfg = c)
    IN  <<"config",
          Fixed(Frac(ConvGet(convs, 1, "ttft"), 1), 3),
          Fixed(Frac(ConvGet(convs, 1, "total_time"), 1), 3),
          ToString(ConvGet(convs, 1, "response_length")),
          Fixed(Frac(ConvGet(convs, 2, "ttft"), 1), 3),
          Fixed(Frac(ConvGet(convs, 2, "total_time"), 1), 3),
          ToString(ConvGet(convs, 2, "response_length"))>>

\* print_comparison_table: the lines of the table
PerfReport(res) == Rendered([c \in 1..plan.configs |-> PerfRow(res, c)])

\* what is rendered from the results of driver d
GenerateReport(d, res) ==
    CASE d = SinglePrompt -> GeminiSingleReport(res)
      [] d = MultiTurn    -> GeminiMultiReport(res)
      [] d = StreamVsNon  -> GeminiCompareReport(res)
      [] d = JpSingle     -> JpSingleReport(res)
      [] d = JpMulti      -> JpMultiReport(res)
      [] d = Perf         -> PerfReport(res)

\* the driver has returned its results: the report is rendered from them
Render ==
    /\ pc = "done"
    /\ report' = Some(GenerateReport(driver, results))
    /\ pc' = "reported"
    /\ UNCHANGED <<scope, driver, plan, ci, pi, ri, results, history, contents, calls, totals,
                   slept, env_key, samplerVars, now, ret, outcome, requests>>

----------------------------------------------------------------------------
(* Specification *)

Next ==
    \/ Startup
    \/ IssueCall
    \/ Finish
    \/ PostStream
    \/ PostBlock
    \/ PostRaises
    \/ ReadLine
    \/ ReadRaises
    \/ StreamClose
    \/ SdkChunk
    \/ SdkRaises
    \/ SdkClose
    \/ HandleSinglePrompt
    \/ HandleMultiTurn
    \/ HandleStreamVsNon
    \/ HandleJpSingle
    \/ HandleJpMulti
    \/ HandlePerf
    \/ Render

Spec == Init /\ [][Next]_vars

\* one call followed to its end: the scripts are sequential programs, so a step
\* that can be taken is taken (requests bounds every wait with its timeout)
CallInit == Start({"call"})

CallSpec == CallInit /\ [][Next]_vars /\ WF_vars(Next)

----------------------------------------------------------------------------
(* Claims *)

Failed(r)    == ~IsNone(r.error)

\* C1 as stated: every dict a sampler returns is a success with total_time
\* present or a failure with error present, and never carries both an error and
\* a non-empty response text.
C1_NeverErrorWithText ==
    pc = "ret" =>
        LET r == Val(ret)
        IN  /\ (~Failed(r) => ~IsNone(r.total_time))
            /\ ~(Failed(r) /\ Populated(r.response_text))

\* C1 amended: every dict a sampler returns is a success with total_time
\* present or a failure with error present; a failure of the REST samplers
\* carries no response text, and a failure of test_model_with_timing carries
\* the text "错误: " + error together with a total_time and a response_length
\* of 0.
C1_ResultShape ==
    pc = "ret" =>
        LET r == Val(ret)
        IN  /\ (~Failed(r) => ~IsNone(r.total_time) /\ ~IsNone(r.response_text))
            /\ (Failed(r) /\ Sampler # "sdk" => IsNone(r.response_text))
            /\ (Failed(r) /\ Sampler = "sdk" =>
                    /\ r.response_text = Some(ErrorText(Val(r.error)))
                    /\ Populated(r.response_text)
                    /\ ~IsNone(r.total_time)
                    /\ r.response_length = Some(0))

\* C1 witness: a REST streaming call fails after text has arrived.
C1_Witness ==
    /\ pc = "ret"
    /\ Sampler = "stream"
    /\ Failed(Val(ret))
    /\ response_text # << >>

\* C2 as stated: every driver holds one record per call issued, failed or
\* not, whenever it is between two calls or has ended.
C2_OneRecordPerCall ==
    pc \in {"loop", "done", "crashed"} => Len(results) = calls

\* the driver adds one record, which is the record of the returned call
AddsRecordOf(r) ==
    /\ Len(results') = Len(results) + 1
    /\ SubSeq(results', 1, Len(results)) = results
    /\ results'[Len(results')].error = r.error
    /\ results'[Len(results')].cfg = ci
    /\ results'[Len(results')].prompt = pi
    /\ results'[Len(results')].round = ri

\* C2 amended: every driver other than run_streaming_vs_non_streaming_test
\* adds one record for every call, a failure record standing for a failed
\* call, and so holds as many records as calls issued;
\* run_streaming_vs_non_streaming_test adds a record for a successful call
\* only and adds nothing for a failed one.
C2_RecordPerCall ==
    /\ [](pc \in {"loop", "done", "crashed"} /\ driver # StreamVsNon => Len(results) = calls)
    /\ [][pc = "ret" =>
            IF driver = StreamVsNon /\ Failed(Val(ret))
            THEN results' = results
            ELSE AddsRecordOf(Val(ret))]_vars

\* C2 witness: a multi-turn run is past a failed turn and has recorded it.
C2_Witness ==
    /\ pc = "loop"
    /\ driver = MultiTurn
    /\ calls = 2
    /\ Len(results) = 2
    /\ Failed(results[2])
    /\ ~Failed(results[1])

\* C3 as stated: whatever a sampler returns, the driver's handling of the
\* sample completes and the run goes on; no run ends in an escaped exception.
C3_NoSampleAborts == pc # "crashed"

\* the turns a finished conversation should hold: one (user, model) pair for
\* every record without error (and, with needText, with a ttft), in order
RECURSIVE PairsOf(_, _)
PairsOf(recs, needText) ==
    IF recs = << >> THEN << >>
    ELSE LET r == Head(recs)
         IN  (IF ~Failed(r) /\ (needText => ~IsNone(r.ttft))
              THEN <<UserTurn(r.prompt), ModelTurn(Val(r.response_text))>>
              ELSE << >>)
             \o PairsOf(Tail(recs), needText)

\* a multi-turn conversation has processed all its prompts
ConversationOver ==
    /\ IsMultiTurn(driver)
    /\ pc \in {"loop", "done"}
    /\ pi = 1
    /\ ci > 1

IsOfConfig(c, r) == r.cfg = c
ConversationRecords == SelectSeq(results, LAMBDA r : IsOfConfig(ci - 1, r))

\* C4 as stated: when a multi-turn conversation has processed all its
\* prompts, its history holds one (user prompt, model text) pair for every
\* call whose error is absent, in prompt order, and nothing else.
C4_PairPerSuccess ==
    ConversationOver => history = PairsOf(ConversationRecords, FALSE)

\* C4 amended: when a multi-turn conversation has processed all its prompts,
\* its history holds one (user prompt, model text) pair for every call whose
\* error is absent and whose ttft is present (the stream delivered text), in
\* prompt order, and nothing else; a failed call leaves the history unchanged
\* and the run continues with the next prompt.
C4_PairPerTextSuccess ==
    /\ [](ConversationOver => history = PairsOf(ConversationRecords, TRUE))
    /\ [][pc = "ret" /\ IsMultiTurn(driver) /\ Failed(Val(ret)) =>
            history' = history /\ pc' = "loop"]_vars

\* C4 witness: three prompts, the second call failed, two pairs are kept.
C4_Witness ==
    /\ driver = MultiTurn
    /\ pc = "done"
    /\ plan.prompts = 3
    /\ Len(results) = 3
    /\ ~Failed(results[1]) /\ Failed(results[2]) /\ ~Failed(results[3])
    /\ history = <<UserTurn(1), ModelTurn(FragA), UserTurn(3), ModelTurn(FragA)>>

\* the k-th planned sample: configuration-major, then prompt, then repetition
PlannedKey(k) ==
    << ((k - 1) \div (plan.prompts * plan.rounds)) + 1,
       (((k - 1) \div plan.rounds) % plan.prompts) + 1,
       ((k - 1) % plan.rounds) + 1 >>

KeyOf(r) == <<r.cfg, r.prompt, r.round>>

KeyBefore(a, b) ==
    \/ a[1] < b[1]
    \/ a[1] = b[1] /\ a[2] < b[2]
    \/ a[1] = b[1] /\ a[2] = b[2] /\ a[3] < b[3]

\* C5: the result sequence is in iteration order, configuration-major, then
\* prompt, then repetition, whatever calls fail: the k-th record is the k-th
\* planned sample (in run_streaming_vs_non_streaming_test, which records
\* successes only, the records are in increasing plan order), and a run of
\* any other driver that returns holds the whole plan.
C5_IterationOrder ==
    /\ driver # StreamVsNon =>
           \A k \in 1..Len(results) : KeyOf(results[k]) = PlannedKey(k)
    /\ \A j, k \in 1..Len(results) : j < k => KeyBefore(KeyOf(results[j]), KeyOf(results[k]))
    /\ pc = "done" /\ driver # StreamVsNon =>
           Len(results) = TotalCalls(driver, plan)

\* C5 witness: two configurations (one model, thinking on and off) and two
\* prompts at one repetition each, with a failed call among the four.
C5_Witness ==
    /\ driver = JpSingle
    /\ pc = "done"
    /\ plan = [configs |-> 1, prompts |-> 2, rounds |-> 1]
    /\ [k \in 1..Len(results) |-> KeyOf(results[k])]
           = << <<1, 1, 1>>, <<1, 2, 1>>, <<2, 1, 1>>, <<2, 2, 1>> >>
    /\ Failed(results[2])
    /\ ~Failed(results[3])

\* a stream without a decodable event: blank lines, lines that are not data
\* lines, data lines that are not JSON
NoEvent(ls) == \A i \in 1..Len(ls) : ls[i].kind \in {"blank", "framing", "badjson"}

IsStreaming == Sampler \in {"stream", "jp_stream", "sdk"}

\* a streaming call returned because its stream closed without a decodable event
ClosedWithoutEvent ==
    /\ pc = "ret"
    /\ IsStreaming
    /\ outcome = "closed"
    /\ NoEvent(lines)

\* C6 as stated: a stream that closes without a decodable event gives a
\* success with total_time present, the empty text, and first-event and
\* first-text times that are absent, not a number such as 0.
C6_NoEventAbsentTimes ==
    ClosedWithoutEvent =>
        LET r == Val(ret)
        IN  /\ ~Failed(r)
            /\ ~IsNone(r.total_time)
            /\ r.response_text = Some(<< >>)
            /\ IsNone(r.ttft)
            /\ IsNone(r.first_chunk_time)

\* C6 amended: a stream that closes without a decodable event (no line, blank
\* lines, lines that are not data lines, data lines that are not JSON) gives a
\* success with total_time present and the empty text; the REST streaming
\* samplers return an absent ttft, and test_model_with_timing, whose stream
\* then has no chunk, returns first_chunk_time = first_token_time = 0.
C6_NoEventResult ==
    ClosedWithoutEvent =>
        LET r == Val(ret)
        IN  /\ ~Failed(r)
            /\ r.total_time = Some(now - start_time)
            /\ r.response_text = Some(<< >>)
            /\ IF Sampler = "sdk"
               THEN r.ttft = Some(0) /\ r.first_chunk_time = Some(0) /\ r.chunk_count = Some(0)
               ELSE IsNone(r.ttft) /\ IsNone(r.first_chunk_time)

\* C6 witness: a REST stream of one undecodable data line and one framing line.
C6_Witness ==
    /\ ClosedWithoutEvent
    /\ Sampler = "stream"
    /\ lines = <<BadJson, Framing>>

HasText(chunk) ==
    /\ chunk.cands # << >>
    /\ \E i \in 1..Len(chunk.cands[1]) : Populated(chunk.cands[1][i].text)

\* C7: in the reader of test_model_with_timing the first-event time is
\* present exactly when a chunk has been received, text or not, and is the
\* arrival time of the first chunk; neither timestamp changes once set; and
\* when both are present the first-text time is not before the first-event time.
C7_FirstEventThenText ==
    /\ [](pc = "sdk_read" =>
            /\ IsNone(first_chunk_time) <=> chunk_count = 0
            /\ ~IsNone(first_token_time) =>
                   /\ ~IsNone(first_chunk_time)
                   /\ Val(first_token_time) >= Val(first_chunk_time)
            /\ ~IsNone(first_token_time) <=> \E i \in 1..Len(lines) : HasText(lines[i]))
    /\ [][pc = "sdk_read" /\ pc' = "sdk_read" =>
            /\ IsNone(first_chunk_time) => first_chunk_time' = Some(now' - start_time)
            /\ ~IsNone(first_chunk_time) => first_chunk_time' = first_chunk_time
            /\ ~IsNone(first_token_time) => first_token_time' = first_token_time]_vars

\* C7 witness: a first chunk without text, then a later chunk with text.
C7_Witness ==
    /\ pc = "sdk_read"
    /\ chunk_count = 2
    /\ ~HasText(lines[1])
    /\ HasText(lines[2])
    /\ Val(first_token_time) > Val(first_chunk_time)

\* C8 as stated: a failed sample has an absent time_to_first_token, and a
\* total_time that is absent or the measured duration of the call.
C8_FailureHasNoTtft ==
    pc = "ret" /\ Failed(Val(ret)) =>
        /\ IsNone(Val(ret).ttft)
        /\ Val(ret).total_time \in {None, Some(now - start_time)}

\* C8 amended: a failed sample of the REST samplers has ttft and total_time
\* absent; a failed sample of test_model_with_timing reports first_token_time
\* and first_chunk_time as 0 and total_time as the measured duration of the
\* call; both also when text had been received before the failure.
C8_FailureTimes ==
    pc = "ret" /\ Failed(Val(ret)) =>
        IF Sampler = "sdk"
        THEN /\ Val(ret).ttft = Some(0)
             /\ Val(ret).first_chunk_time = Some(0)
             /\ Val(ret).total_time = Some(now - start_time)
        ELSE /\ IsNone(Val(ret).ttft)
             /\ IsNone(Val(ret).total_time)

\* C8 witness: a REST streaming call fails after its first text fragment.
C8_Witness ==
    /\ pc = "ret"
    /\ Sampler = "jp_stream"
    /\ Failed(Val(ret))
    /\ Truthy(first_token_time)
    /\ now > start_time

\* the texts of a list of parts, joined in order
RECURSIVE JoinTexts(_, _)
JoinTexts(parts, n) ==
    IF n = 0 THEN << >>
    ELSE JoinTexts(parts, n - 1) \o (IF IsNone(parts[n].text) THEN << >> ELSE Val(parts[n].text))

\* the words of the texts of a list of parts, counted text by text
RECURSIVE SumWords(_, _)
SumWords(parts, n) ==
    IF n = 0 THEN 0
    ELSE SumWords(parts, n - 1)
         + (IF IsNone(parts[n].text) THEN 0 ELSE WordCount(Val(parts[n].text)))

\* a blocking call returned on a 200 response whose body is a JSON object
BlockingResponse ==
    /\ pc = "ret"
    /\ Sampler = "block"
    /\ outcome = "response"
    /\ lines[1].json

\* C9: a blocking sample that receives a 200 response (a JSON object) is a
\* success whose time_to_first_token equals its total_time, whose text is the
\* texts of candidates[0].content.parts joined in order, and whose output size
\* is usageMetadata.candidatesTokenCount when present; text "Hello" with
\* candidatesTokenCount 1 gives output size 1 and text "Hello".
C9_BlockingSuccess ==
    BlockingResponse =>
        LET r    == Val(ret)
            body == lines[1]
        IN  /\ ~Failed(r)
            /\ r.total_time = Some(now - start_time)
            /\ r.ttft = r.total_time
            /\ r.response_text =
                   Some(IF body.cands = << >> THEN << >>
                        ELSE JoinTexts(body.cands[1], Len(body.cands[1])))
            /\ ~IsNone(body.usage) => r.token_count = body.usage
            /\ body = Body(TRUE, << <<PText(Hello)>> >>, Some(1)) =>
                   r.response_text = Some(Hello) /\ r.token_count = Some(1)

\* C9 witness: the response with text "Hello" and candidatesTokenCount 1.
C9_Witness ==
    /\ BlockingResponse
    /\ lines[1] = Body(TRUE, << <<PText(Hello)>> >>, Some(1))
    /\ Val(ret).response_text = Some(Hello)
    /\ Val(ret).ttft = Some(1)

\* C10: a REST streaming sample whose transport raises a timeout is a failure
\* with error "Request timeout" and with ttft, total_time and text absent.
C10_StreamingTimeout ==
    pc = "ret" /\ Sampler \in {"stream", "jp_stream"} /\ outcome = "timeout" =>
        /\ Val(ret).error = Some("Request timeout")
        /\ IsNone(Val(ret).ttft)
        /\ IsNone(Val(ret).total_time)
        /\ IsNone(Val(ret).response_text)

\* C10 witness: the timeout is raised after text has been received.
C10_Witness ==
    /\ pc = "ret"
    /\ Sampler = "stream"
    /\ outcome = "timeout"
    /\ response_text # << >>
    /\ Truthy(first_token_time)

\* C11 as stated: in every sampler, the blocking one and test_model_with_timing
\* included, a call that times out returns error = "Request timeout".
C11_TimeoutDistinguished ==
    pc = "ret" /\ outcome = "timeout" => Val(ret).error = Some("Request timeout")

\* the prefix "HTTP <code>: " of the error of a non-200 response
HttpPrefix(status) == "HTTP " \o ToString(status) \o ": "

IsPrefix(a, b) == Len(a) <= Len(b) /\ SubSeq(b, 1, Len(a)) = a

\* the error is "HTTP <code>: " followed by the first min(200, len) characters
\* of one of the bodies
IsHttpError(e) ==
    \E status \in StatusCodes \ {200}, text \in ErrorBodies :
        /\ IsPrefix(HttpPrefix(status), e)
        /\ IsPrefix(e, HttpPrefix(status) \o text)
        /\ Len(e) = Len(HttpPrefix(status)) + (IF Len(text) < 200 THEN Len(text) ELSE 200)

\* C12: a non-200 status makes the streaming and the blocking samplers return
\* a failure whose error is "HTTP <code>: <body>" with the body cut to at most
\* 200 characters and whose ttft, total_time, output size and text are absent;
\* no line of the stream has been read; and the driver handles it as any
\* failure and goes on to the next sample.
C12_HttpStatusFailure ==
    /\ [](pc = "ret" /\ outcome = "http" =>
            /\ IsHttpError(Val(Val(ret).error))
            /\ IsNone(Val(ret).ttft)
            /\ IsNone(Val(ret).total_time)
            /\ IsNone(Val(ret).token_count)
            /\ IsNone(Val(ret).response_text)
            /\ (Sampler # "block" => lines = << >> /\ response_text = << >>))
    /\ [][pc = "ret" /\ outcome = "http" =>
            /\ pc' = "loop"
            /\ <<ci', pi', ri'>> = NextPos(ci, pi, ri)
            /\ IF driver = StreamVsNon THEN results' = results
               ELSE AddsRecordOf(Val(ret))]_vars

\* C12 witness: a streaming call got status 500 with a body of 201 characters.
C12_Witness ==
    /\ pc = "ret"
    /\ outcome = "http"
    /\ Sampler = "jp_stream"
    /\ Val(ret).error = Some("HTTP 500: " \o Repeat("0123456789", 20))

Malformed(line) == line.kind \in {"badjson", "nonobj", "badbytes"}

\* what the reader accumulates from a list of lines: its text and output size
RECURSIVE Accumulated(_, _)
Accumulated(ls, n) ==
    IF n = 0 THEN [text |-> << >>, tokens |-> 0]
    ELSE LET before == Accumulated(ls, n - 1)
             parts  == IF ls[n].kind = "event" /\ ls[n].cands # << >>
                       THEN ls[n].cands[1] ELSE << >>
             text   == JoinTexts(parts, Len(parts))
         IN  [text |-> before.text \o text,
              tokens |-> before.tokens + SumWords(parts, Len(parts))]

\* C13 as stated: a data line that cannot be used as an event (not JSON, JSON
\* that is not an object, bytes that are not text) is dropped: the call stays a
\* success and its text and output size are those of the stream without the
\* line.
C13_MalformedLineDropped ==
    pc = "ret" /\ Sampler \in {"stream", "jp_stream"} /\ outcome \in {"closed", "badline"} =>
        LET usable == SelectSeq(lines, LAMBDA l : ~Malformed(l))
            acc    == Accumulated(usable, Len(usable))
        IN  /\ ~Failed(Val(ret))
            /\ Val(ret).response_text = Some(acc.text)
            /\ Sampler = "stream" => Val(ret).token_count = Some(acc.tokens)

\* the non-empty texts of the parts of the first candidate of an event
TextsOf(e) ==
    IF e.kind = "event" /\ e.cands # << >> THEN JoinTexts(e.cands[1], Len(e.cands[1]))
    ELSE << >>

WordsOf(e) ==
    IF e.kind = "event" /\ e.cands # << >> THEN SumWords(e.cands[1], Len(e.cands[1]))
    ELSE 0

\* C14: an event or a part that carries no text (no text field, an empty
\* text, a thought signature only, an event without candidates) leaves the
\* first-text time, the accumulated text and the output size unchanged: each
\* event adds the non-empty texts of its parts and nothing else, and the
\* first-text time is set by the first event that has such a text.
C14_TextlessUnchanged ==
    [][pc' = pc /\ pc \in {"read", "sdk_read"} /\ lines' # lines =>
          (LET e == lines'[Len(lines')]
           IN  /\ response_text' = response_text \o TextsOf(e)
               /\ Sampler = "stream" => token_count' = token_count + WordsOf(e)
               /\ TextsOf(e) = << >> => first_token_time' = first_token_time
               /\ ~IsNone(first_token_time) => first_token_time' = first_token_time)]_vars

\* C14 witness: after a text event, a REST stream delivered an event of a
\* thought part only, and the first-text time and the text are those of the
\* first event.
C14_Witness ==
    /\ pc = "read"
    /\ Sampler = "stream"
    /\ lines = <<TextEvent, Event(<< <<PThought>> >>)>>
    /\ response_text = FragA
    /\ token_count = 1
    /\ ~IsNone(first_token_time)

\* the drivers whose report groups the samples: by test type, by model and
\* thinking mode, by configuration
IsGrouped(d) == d \in {SinglePrompt, JpSingle, Perf}

Groups == 1..(IF driver = SinglePrompt THEN plan.prompts ELSE NumConfigs(driver, plan))

GroupOf(r) == IF driver = SinglePrompt THEN r.prompt ELSE r.cfg

\* the records of group g, and the successful ones among them
GroupRecords(g)   == SelectSeq(results, LAMBDA r : GroupOf(r) = g)
GroupSuccesses(g) == SelectSeq(GroupRecords(g), LAMBDA r : ~Failed(r))

\* the cells of the line of group g that show statistics
StatCells(g) ==
    LET row == Val(report).rows[g]
    IN  IF driver = JpSingle THEN SubSeq(row, 3, Len(row)) ELSE SubSeq(row, 2, Len(row))

\* C15 as stated: rendering never raises, and a group without a successful
\* sample has "N/A" in every statistic of its line, in generate_report of both
\* scripts and in print_comparison_table.
C15_NoSuccessAllNA ==
    pc = "reported" /\ IsGrouped(driver) =>
        /\ ~Val(report).raised
        /\ \A g \in Groups :
               GroupSuccesses(g) = << >> =>
                   \A i \in 1..Len(StatCells(g)) : StatCells(g)[i] = "N/A"

\* C15 amended: in generate_report of both scripts a group without a successful
\* sample has "N/A" in every timing statistic of its line (mean, minimum and
\* maximum ttft, mean total time, mean tokens per second) and "0%" as its
\* success rate, and a report of samples that all failed is rendered without
\* raising; print_comparison_table has no "N/A": a failed sample is shown with
\* first-token time 0.000, its measured total time and length 0, and a sample
\* that was not taken with 0.000, 0.000 and 0.
C15_NoSuccessRow ==
    pc = "reported" /\ IsGrouped(driver) =>
        /\ (\A i \in 1..Len(results) : Failed(results[i])) => ~Val(report).raised
        /\ ~Val(report).raised =>
             \A g \in Groups :
               GroupSuccesses(g) = << >> =>
                   CASE driver = SinglePrompt ->
                            StatCells(g) = <<"N/A", "N/A", "N/A", "N/A", "N/A", "0%">>
                     [] driver = JpSingle ->
                            StatCells(g) = <<"N/A", "N/A", "N/A", "N/A", "0%">>
                     [] driver = Perf ->
                            /\ StatCells(g)[1] = "0.000"
                            /\ StatCells(g)[3] = "0"
                            /\ StatCells(g)[4] = "0.000"
                            /\ StatCells(g)[6] = "0"
                            /\ Len(GroupRecords(g)) < 2 => StatCells(g)[5] = "0.000"

\* C15 witness: a report of two test types, the first without a success and
\* the second with one.
C15_Witness ==
    /\ pc = "reported"
    /\ driver = SinglePrompt
    /\ plan = [configs |-> 1, prompts |-> 2, rounds |-> 2]
    /\ GroupSuccesses(1) = << >>
    /\ Len(GroupRecords(1)) = 2
    /\ GroupSuccesses(2) # << >>
    /\ ~Val(report).raised
    /\ Val(report).rows[1] = <<"type", "N/A", "N/A", "N/A", "N/A", "N/A", "0%">>

\* the ttft values that are present among the successful records of group g
PresentTtfts(g) ==
    LET present == SelectSeq(GroupSuccesses(g), LAMBDA r : ~IsNone(r.ttft))
    IN  [i \in 1..Len(present) |-> Val(present[i].ttft)]

\* the text of n thousandths of a second
Thousandths(n) == ToString(n \div 1000) \o "." \o Pad(n % 1000, 3) \o "s"

\* the integers next to a / b
Near(a, b) == {a \div b, (a \div b) + 1}

\* cell shows the quotient a / b in units of 1 / scale, to the nearest unit
ShowsQuotient(cell, a, b, scale, k, suffix) ==
    /\ IF scale = 1000 THEN cell = Thousandths(k) ELSE cell = ToString(k) \o suffix
    /\ 2 * (a * scale - k * b) <= b
    /\ 2 * (k * b - a * scale) <= b

InFlight == pc \in {"post", "read", "sdk_read"}

\* C18 as stated: a call is issued only when no call is in flight and the
\* previous one has returned, and the driver has slept between every two
\* consecutive calls, in every driver.
C18_DelayBetweenCalls ==
    [][calls' # calls =>
          /\ calls' = calls + 1
          /\ ~InFlight
          /\ calls > 0 => ~IsNone(ret) /\ slept]_vars

\* the driver sleeps between this call and the next one
DelayExpected ==
    CASE driver = Perf         -> FALSE
      [] driver = SinglePrompt -> ri > 1
      [] OTHER                 -> TRUE

\* C18 amended: a call is issued only when no call is in flight and the
\* previous one has returned; the driver sleeps between two consecutive calls
\* in both run_multi_turn_test, run_single_turn_tests and
\* run_streaming_vs_non_streaming_test; run_single_prompt_tests sleeps between
\* the repetitions of one prompt and not between the last repetition of a
\* prompt and the first of the next; run_performance_test does not sleep.
C18_SerialCalls ==
    /\ [](InFlight => IsNone(ret))
    /\ [][calls' # calls =>
            /\ calls' = calls + 1
            /\ ~InFlight
            /\ pc = "loop"
            /\ calls > 0 => ~IsNone(ret) /\ (slept <=> DelayExpected)]_vars

\* C18 witness: run_single_prompt_tests is about to call for the first
\* repetition of the second prompt and has not slept.
C18_Witness ==
    /\ driver = SinglePrompt
    /\ pc = "loop"
    /\ plan.rounds = 2
    /\ calls = 2
    /\ pi = 2 /\ ri = 1
    /\ ~slept

\* C19: no retries.  A sampler call issues at most one network request; the
\* calls of a driver are those of its plan, each sample once and in order
\* (the n-th call is the n-th planned sample); after a failed call the driver
\* goes on to the next sample; and a driver that returns has issued one call
\* for each planned sample.
C19_NoRetries ==
    /\ [](/\ requests <= calls
          /\ pc \in {"read", "sdk_read", "ret"} => requests = calls
          /\ pc = "done" => calls = TotalCalls(driver, plan) /\ requests = calls)
    /\ [][/\ calls' # calls =>
               calls' = calls + 1 /\ <<ci, pi, ri>> = PlannedKey(calls')
          /\ requests' # requests => requests' = requests + 1 /\ requests = calls' - 1
          /\ pc = "ret" /\ Failed(Val(ret)) =>
               pc' = "loop" /\ <<ci', pi', ri'>> = NextPos(ci, pi, ri)]_vars

\* C19 witness: a run of three planned samples has returned after three
\* requests, the second of which failed.
C19_Witness ==
    /\ pc = "done"
    /\ driver = SinglePrompt
    /\ calls = 3 /\ requests = 3
    /\ Len(results) = 3
    /\ Failed(results[2])
    /\ KeyOf(results[3]) = PlannedKey(3)

\* C20 as stated: with GEMINI_API_KEY unset or empty no script issues a
\* sampling call, and with the key present no run is aborted.
C20_MissingKeyAborts ==
    /\ env_key \in {"unset", "empty"} => calls = 0
    /\ env_key = "set" => pc \notin {"aborted", "crashed"}

----------------------------------------------------------------------------
(* Conversation state *)

\* a call has been issued and its result is not handled yet
CallOpen == pc \in {"post", "read", "sdk_read", "ret"}

\* C21: conversation state does not leak between independent runs: the
\* contents of every single-turn call is exactly its one user prompt, whatever
\* the earlier calls returned, and the first call of every multi-turn run
\* (one run per model in the Japanese script) is sent with an empty history.
C21_NoLeakBetweenRuns ==
    CallOpen =>
        /\ ~IsMultiTurn(driver) => contents = <<UserTurn(pi)>>
        /\ IsMultiTurn(driver) /\ pi = 1 => contents = <<UserTurn(1)>>

\* C21 witness: the second model of the Japanese multi-turn run is sent its
\* first prompt alone although the first model's conversation recorded a turn.
C21_Witness ==
    /\ driver = JpMulti
    /\ ci = 2 /\ pi = 1
    /\ pc = "post"
    /\ Len(results) >= 1
    /\ ~Failed(results[1]) /\ ~IsNone(results[1].ttft)
    /\ contents = <<UserTurn(1)>>

\* C23: the text of a successful streaming call is the concatenation, in
\* arrival order of the events and in part order within each event, of the
\* non-empty texts of the parts of the first candidate of every event; nothing
\* is reordered, duplicated or dropped, and no other candidate contributes.
C23_TextIsConcatenation ==
    pc = "ret" /\ IsStreaming /\ ~Failed(Val(ret)) =>
        Val(ret).response_text = Some(Accumulated(lines, Len(lines)).text)

\* C23 witness: an event of two text parts and then an event whose text is in
\* its second candidate only: the text is the two fragments of the first event
\* in part order.
C23_Witness ==
    /\ pc = "ret"
    /\ Sampler = "stream"
    /\ outcome = "closed"
    /\ lines = << Event(<< <<PText(FragA), PText(FragB)>> >>),
                  Event(<< <<PThought>>, <<PText(FragA)>> >>) >>
    /\ Val(ret).response_text = Some(FragA \o FragB)

\* the roles of a list of turns alternate, starting with the user
Alternates(turns) ==
    \A i \in 1..Len(turns) : turns[i].role = (IF i % 2 = 1 THEN "user" ELSE "model")

\* C24: at every point of a multi-turn run the history has even length and
\* alternates user, model, ..., the prompts in the order they were asked; the
\* contents of every request is the history plus the new prompt, so it ends
\* with a user turn and has no two consecutive turns of one role.
C24_HistoryAlternates ==
    IsMultiTurn(driver) =>
        /\ Len(history) % 2 = 0
        /\ Alternates(history)
        /\ \A i \in 1..Len(history) :
              /\ history[i].role = "user" => history[i].prompt \in 1..plan.prompts
              /\ (history[i].role = "user" /\ i + 2 <= Len(history)) =>
                     history[i].prompt < history[i + 2].prompt
        /\ CallOpen =>
              /\ contents = history \o <<UserTurn(pi)>>
              /\ contents[Len(contents)].role = "user"
              /\ \A i \in 1..(Len(contents) - 1) : contents[i].role # contents[i + 1].role

\* C24 witness: the Japanese multi-turn run sends its third prompt after a
\* turn that was answered and a turn that was not.
C24_Witness ==
    /\ driver = JpMulti
    /\ pc = "post"
    /\ pi = 3
    /\ Len(results) = 2
    /\ ~Failed(results[1]) /\ Failed(results[2])
    /\ Len(history) = 2
    /\ contents = history \o <<UserTurn(3)>>

\* a step that enters the sampler leaves the passed history as it is, and so
\* does every step inside the sampler
CallKeepsHistory ==
    /\ (pc = "loop" /\ pc' \in {"post", "sdk_read"}) => history' = PassedHistory
    /\ (pc \in {"post", "read", "sdk_read"}) => history' = history

\* C25: a sampler call does not modify the history it is given: the history
\* is the one the driver passed when the call starts and stays identical
\* until the call has returned, for every outcome; only the step of the
\* driver that handles the result appends to it.
C25_SamplerKeepsHistory == [][CallKeepsHistory]_vars

\* C25 witness: a call with a non-empty history has returned an error and the
\* history is the one answered turn it was given.
C25_Witness ==
    /\ driver = MultiTurn
    /\ pc = "ret"
    /\ pi = 2
    /\ Failed(Val(ret))
    /\ history = <<UserTurn(1), ModelTurn(FragA)>>
    /\ contents = history \o <<UserTurn(2)>>

\* the first-text time as the sampler reports it: relative to the start
ReportedFirstText ==
    IF Sampler = "sdk" THEN Val(first_token_time) ELSE Val(first_token_time) - start_time

\* a step of the stream reader: the first non-empty text stamps the first-text
\* time with its arrival time, a later line leaves it alone, and a successful
\* return reports it
ReaderStepKeepsFirstText ==
    pc \in {"read", "sdk_read"} =>
        /\ (lines' # lines /\ IsNone(first_token_time)
               /\ TextsOf(lines'[Len(lines')]) # << >>) =>
              first_token_time' = Some(IF Sampler = "sdk" THEN now' - start_time ELSE now')
        /\ (pc' = pc /\ ~IsNone(first_token_time)) =>
              first_token_time' = first_token_time
        /\ (pc' = "ret" /\ ~Failed(Val(ret')) /\ ~IsNone(first_token_time)) =>
              Val(ret').ttft = Some(ReportedFirstText)

\* C26: a successful streaming result with ttft present has
\* 0 <= ttft <= total_time, and ttft is the time at which the first non-empty
\* text arrived: the first such text sets it, later texts leave it alone, and
\* the result reports it.
C26_TtftIsFirstText ==
    /\ [](pc = "ret" /\ IsStreaming /\ ~Failed(Val(ret)) /\ ~IsNone(Val(ret).ttft) =>
            /\ 0 <= Val(Val(ret).ttft)
            /\ Val(Val(ret).ttft) <= Val(Val(ret).total_time))
    /\ [][ReaderStepKeepsFirstText]_vars

\* C26 witness: a stream delivered text at two different times and closed
\* later still; ttft is the time of the first text, below total_time.
C26_Witness ==
    /\ pc = "ret"
    /\ Sampler = "stream"
    /\ outcome = "closed"
    /\ Len(lines) = 2
    /\ TextsOf(lines[1]) # << >> /\ TextsOf(lines[2]) # << >>
    /\ Val(ret).ttft = Some(0)
    /\ Val(ret).total_time = Some(2)

----------------------------------------------------------------------------
(* Termination of a call *)

\* a step of a call: a read consumes one line, appended after those already
\* consumed; a result is returned once, by an open call; a successful close
\* measures total_time on the clock read after the last line was consumed
CallStep ==
    /\ lines' # lines /\ pc \in {"read", "sdk_read"} =>
          /\ Len(lines') = Len(lines) + 1
          /\ SubSeq(lines', 1, Len(lines)) = lines
    /\ ret' # ret /\ ~IsNone(ret') =>
          /\ pc \in {"post", "read", "sdk_read"}
          /\ IsNone(ret)
          /\ pc' = "ret"
    /\ pc \in {"read", "sdk_read"} /\ pc' = "ret" /\ outcome' = "closed" =>
          /\ lines' = lines
          /\ now' >= now
          /\ Val(ret').total_time = Some(now' - start_time)

\* C22: the reader consumes the lines of a finite stream one at a time in
\* arrival order and stops when the stream closes; every issued call
\* eventually returns, exactly one result (a completion, an error or a
\* timeout); on completion total_time is measured after the last line was
\* consumed.
C22_CallTerminates ==
    /\ (pc \in {"post", "read", "sdk_read"}) ~> (pc = "ret")
    /\ [](pc = "ret" => ~IsNone(ret) /\ outcome # "")
    /\ [][CallStep]_vars

\* C22 witness: a stream of two lines read at different times has closed and
\* the call returned a completion whose total_time is the time of the close.
C22_Witness ==
    /\ pc = "ret"
    /\ Sampler = "stream"
    /\ outcome = "closed"
    /\ Len(lines) = 2
    /\ ~IsNone(Val(ret).ttft)
    /\ Val(Val(ret).total_time) = now - start_time
    /\ Val(Val(ret).total_time) > Val(Val(ret).ttft)

----------------------------------------------------------------------------
(* The report of a finished run *)

\* C27 as stated: generate_report returns a report without raising for every
\* result collection a finished driver hands it, also when no successful
\* record has a ttft to average: the averages are then left out or shown as
\* not available.
C27_ReportNeverRaises ==
    pc = "reported" => ~IsNone(report) /\ ~Val(report).raised

====
